---- MODULE Spec2Model ----
(***************************************************************************)
(* Model of the outreach sync service: the retrying HTTP client            *)
(* (sync_svc/shared/httpclient.py), the Kafka consumer loop and its        *)
(* handler (sync_svc/consumer.py), the ServiceNow delivery                 *)
(* (sync_svc/crm_services/servicenow), the Kafka publisher                 *)
(* (internal_service/core/kafka/publisher.py) and the Customer post-save   *)
(* hook with its event builder (internal_service/core).                    *)
(***************************************************************************)
EXTENDS Integers, Sequences, FiniteSets, TLC

VARIABLES
    \* ---- HttpClient (one client object, one call at a time) ----
    client,          \* the constructed HttpClient: base_url, max_retries, jitter
    http,            \* the frame of _execute_with_retry: pc, inputs, locals, trace
    used_ids,        \* the uuid4 values drawn so far for error_instance_id
    \* ---- EventConsumer.start and its handler ----
    cpc,             \* "idle" | "polling" | "received" | "stopped" | "failed" | "crashed"
    handler,         \* the handler passed to EventConsumer(handler=...)
    topic_log,       \* messages appended to internal.customer.events
    position,        \* offset of the next message poll() hands out
    committed,       \* offset committed for group sync-service
    msg,             \* the message poll() returned, not yet dispatched
    last,            \* record of the last dispatch (handler invocation)
    done_count,      \* per offset: number of handler runs that completed
    closes,          \* consumer.close() calls of the current start()
    start_error,     \* the exception that propagated out of start(), if any
    timeouts,        \* consecutive poll timeouts of the current start()
    restarts,        \* number of start() calls so far
    prev_exit,       \* how the previous run of start() ended ("none" for the first)
    stats,           \* counters over all dispatches of handle_event
    \* ---- publisher module and the post-save hook ----
    producer,        \* the module global _producer (NoProducer until created)
    broker,          \* messages enqueued by producer.produce, in order
    save,            \* record of the last Customer save and its hook
    \* ---- publish called from several threads of one process ----
    threads,         \* per thread: where it is inside publish, and its message
    producers,       \* the Producer objects constructed so far: messages enqueued on each
    thread_calls     \* number of publish calls entered so far

varsHttp == <<client, http, used_ids>>
varsConsumer == <<cpc, handler, topic_log, position, committed, msg, last, done_count, closes, start_error, timeouts, restarts, prev_exit, stats>>
varsPublisher == <<producer, broker, save>>
varsThreads == <<threads, producers, thread_calls>>
vars == <<varsHttp, varsConsumer, varsPublisher, varsThreads>>

-----------------------------------------------------------------------------
(* Bounds of the model *)

\* largest max_retries a client is constructed with
MaxRetries == 3
\* number of messages appended to internal.customer.events
MaxLog == 2
\* number of start() calls of the consumer (first start and restarts)
MaxStarts == 2
\* number of consecutive poll timeouts that are counted
MaxTimeouts == 2
\* number of Customer saves
MaxSaves == 2

-----------------------------------------------------------------------------
(* Values *)

\* Python's None object (not the text "None")
None == "<None>"

\* HttpClient.__init__: max_retries: int = 3
DefaultMaxRetries == 3

\* what one HTTP attempt (requests.get / requests.post) can do: answer with a
\* response, or raise an exception of requests.exceptions
Resp(status, body) == [kind |-> "response", status |-> status, body |-> body, class |-> ""]
Exc(class) == [kind |-> "exception", status |-> 0, body |-> "", class |-> class]
\* an HTTPError carries its response unless it was raised without one
HttpErr(status) == [kind |-> "exception", status |-> status, body |-> "", class |-> "HTTPError"]

Responses ==
    { Resp(200, "json"), Resp(201, "text"), Resp(404, "json"),
      Resp(429, "json"), Resp(500, "text") }
Raised ==
    { Exc("ConnectionError"), Exc("TooManyRedirects"), Exc("RequestException") }
Outcomes == Responses \cup Raised

\* an attempt interrupted from outside (Ctrl-C): a BaseException, not an Exception
Interrupt == Exc("KeyboardInterrupt")
BaseExceptions == {"KeyboardInterrupt"}

NoError == Exc(None)
NoOutcome == Exc("")
NoValue == [status_code |-> 0, headers |-> None, data |-> None]
NoEntry == [id |-> 0, function_name |-> "", has_attempt |-> FALSE, attempt |-> 0, of |-> 0, error_type |-> "", url |-> [base |-> "", path |-> ""]]

\* a url is its scheme-and-host part ("" when relative) and its path
ServiceNowBase == "https://dev311661.service-now.com"
postTableUrl == [base |-> "", path |-> "/api/now/table/incident"]
AbsoluteUrl == [base |-> "https://other.example", path |-> "x"]
Urls == {postTableUrl, AbsoluteUrl}
Methods == {"GET", "POST", "DELETE"}
\* number of calls made on one client
MaxCalls == 2
\* uuid.uuid4(): a value not drawn before
uuid4(used) == Cardinality(used) + 1
\* str(uuid.uuid4()) for the n-th value drawn
UuidText(n) == <<"uuid-1", "uuid-2", "uuid-3", "uuid-4", "uuid-5", "uuid-6", "uuid-7", "uuid-8">>[n]

Min(a, b) == IF a < b THEN a ELSE b

-----------------------------------------------------------------------------
(* sync_svc/shared/httpclient.py *)

\* requests.exceptions: the subclasses of RequestException
RequestExceptionClasses ==
    {"RequestException", "ConnectionError", "Timeout", "HTTPError", "TooManyRedirects"}

\* HttpClient.__init__
HttpClient(base_url, n, jitter) ==
    [base_url |-> base_url, max_retries |-> n, jitter |-> jitter]

\* a classifier that retries every HTTPError, whatever its status
_is_retryable_error_any_status(error) ==
    error.class \in RequestExceptionClasses

_is_retryable_error(error) ==
    IF error.class \in {"ConnectionError", "Timeout", "TooManyRedirects"} THEN TRUE
    ELSE IF error.class = "HTTPError"
         THEN IF error.status = 0 THEN TRUE   \* error.response is None
              ELSE error.status >= 500 \/ error.status = 429
    ELSE IF error.class \in RequestExceptionClasses THEN TRUE
    ELSE FALSE

\* a backoff that grows linearly instead of doubling
_calculate_backoff_linear(attempt) == 2 * Min(attempt + 1, 5)

_calculate_backoff(attempt) == 2 ^ Min(attempt + 1, 5)

\* the entry _log_error writes (attempt = None when the caller passes none)
_log_error(self, error_instance_id, function_name, error, url, has_attempt, attempt) ==
    [id |-> error_instance_id, function_name |-> function_name,
     has_attempt |-> has_attempt,
     attempt |-> IF has_attempt THEN attempt + 1 ELSE 0,
     of |-> IF has_attempt THEN self.max_retries + 1 ELSE 0,
     error_type |-> error.class, url |-> url]

\* url.lstrip('/')
lstrip_slash(path) ==
    IF path = "/api/now/table/incident" THEN "api/now/table/incident" ELSE path

\* a url with a scheme is taken as it is; a relative one is joined to base_url
_build_url(self, url) ==
    IF self.base_url # None
    THEN IF url.base # "" THEN url
         ELSE [base |-> self.base_url, path |-> lstrip_slash(url.path)]
    ELSE url

\* Response.raise_for_status: an HTTPError carrying the response for 4xx and 5xx
raise_for_status(response) ==
    IF response.status >= 400 /\ response.status < 600
    THEN HttpErr(response.status)
    ELSE NoError

\* the dict returned for a response: data is the decoded JSON, else the raw text
ResponseDict(response) ==
    [status_code |-> response.status, headers |-> "headers",
     data |-> IF response.body = "json" THEN "decoded-json" ELSE "raw-text"]

\* events of one call, in the order they happen
RequestEv(attempt, o) == [ev |-> "request", attempt |-> attempt, outcome |-> o, secs |-> 0, entry |-> NoEntry]
LogEv(entry) == [ev |-> "log", attempt |-> 0, outcome |-> NoOutcome, secs |-> 0, entry |-> entry]
SleepEv(attempt, secs) == [ev |-> "sleep", attempt |-> attempt, outcome |-> NoOutcome, secs |-> secs, entry |-> NoEntry]

IdleFrame ==
    [pc |-> "idle", method |-> "", function_name |-> "", full_url |-> [base |-> "", path |-> ""],
     error_instance_id |-> 0, attempt |-> 0, last_error |-> NoError,
     value |-> NoValue, returned_none |-> FALSE, error |-> NoError, trace |-> <<>>]

\* a loop over range(max_retries): one iteration short
EnterCall_short_range(self, method, url, function_name, id) ==
    [IdleFrame EXCEPT !.pc = IF 0 < self.max_retries THEN "loop" ELSE "after_loop",
                      !.method = method, !.function_name = function_name,
                      !.full_url = _build_url(self, url),
                      !.error_instance_id = id]

\* _execute_with_retry, lines 73-75, and the entry of the for loop (line 77)
EnterCall(self, method, url, function_name, id) ==
    [IdleFrame EXCEPT !.pc = IF 0 < self.max_retries + 1 THEN "loop" ELSE "after_loop",
                      !.method = method, !.function_name = function_name,
                      !.full_url = _build_url(self, url),
                      !.error_instance_id = id]

\* a bound that is off by one: the client gives up one attempt early
GivesUp_one_early(self, is_retryable, attempt) ==
    ~is_retryable \/ attempt + 1 >= self.max_retries

\* line 103: the failed attempt is the last one
GivesUp(self, is_retryable, attempt) ==
    ~is_retryable \/ attempt >= self.max_retries

\* the except branch of one iteration (lines 99-115) for error e
OnError(self, f, e, trace) ==
    IF GivesUp(self, _is_retryable_error(e), f.attempt)
    THEN [f EXCEPT !.pc = "raised", !.last_error = e, !.error = e,
             !.trace = Append(trace, LogEv(_log_error(self, f.error_instance_id, f.function_name, e, f.full_url, FALSE, 0)))]
    ELSE LET logged == Append(trace, LogEv(_log_error(self, f.error_instance_id, f.function_name, e, f.full_url, TRUE, f.attempt)))
             slept == IF f.attempt < self.max_retries
                      THEN Append(logged, SleepEv(f.attempt, _calculate_backoff(f.attempt)))
                      ELSE logged
         IN [f EXCEPT !.last_error = e, !.trace = slept,
                !.attempt = f.attempt + 1,
                !.pc = IF f.attempt + 1 < self.max_retries + 1 THEN "loop" ELSE "after_loop"]

\* one iteration of the for loop (lines 77-115); o is what the HTTP attempt does
Iteration(self, f, o) ==
    IF f.method \notin {"GET", "POST"}
    THEN OnError(self, f, Exc("ValueError"), f.trace)
    ELSE LET trace == Append(f.trace, RequestEv(f.attempt, o))
         IN IF o.kind = "exception"
            THEN IF o.class \in BaseExceptions
                 THEN [f EXCEPT !.pc = "raised", !.error = o, !.trace = trace]
                 ELSE OnError(self, f, o, trace)
            ELSE IF raise_for_status(o) # NoError
                 THEN OnError(self, f, raise_for_status(o), trace)
                 ELSE [f EXCEPT !.pc = "returned", !.value = ResponseDict(o), !.trace = trace]

\* after the loop (lines 117-119); falling off the end returns None
AfterLoop(self, f) ==
    IF f.last_error # NoError
    THEN [f EXCEPT !.pc = "raised", !.error = f.last_error,
             !.trace = Append(f.trace, LogEv(_log_error(self, f.error_instance_id, f.function_name, f.last_error, f.full_url, FALSE, 0)))]
    ELSE [f EXCEPT !.pc = "returned", !.returned_none = TRUE]

\* the whole call, the attempts answering as script says
RECURSIVE RunCall(_, _, _)
RunCall(self, f, script) ==
    IF f.pc = "loop" /\ script # <<>>
    THEN RunCall(self, Iteration(self, f, Head(script)), Tail(script))
    ELSE IF f.pc = "after_loop" THEN AfterLoop(self, f)
    ELSE f

\* HttpClient.get and HttpClient.post
FunctionName(method) == IF method = "GET" THEN "HttpClient.get" ELSE "HttpClient.post"

\* a caller enters _execute_with_retry (through get, post, or directly)
HttpBegin ==
    /\ http.pc \in {"idle", "returned", "raised"}
    /\ Cardinality(used_ids) < MaxCalls
    /\ \E method \in Methods, url \in Urls :
          http' = EnterCall(client, method, url, FunctionName(method), uuid4(used_ids))
    /\ used_ids' = used_ids \cup {uuid4(used_ids)}
    /\ UNCHANGED client

\* one iteration of the retry loop
HttpAttempt ==
    /\ http.pc = "loop"
    /\ \E o \in Outcomes : http' = Iteration(client, http, o)
    /\ UNCHANGED <<client, used_ids>>

\* the loop ended without returning or raising
HttpAfterLoop ==
    /\ http.pc = "after_loop"
    /\ http' = AfterLoop(client, http)
    /\ UNCHANGED <<client, used_ids>>

NextHttp ==
    \/ HttpBegin /\ UNCHANGED <<varsConsumer, varsPublisher, varsThreads>>
    \/ HttpAttempt /\ UNCHANGED <<varsConsumer, varsPublisher, varsThreads>>
    \/ HttpAfterLoop /\ UNCHANGED <<varsConsumer, varsPublisher, varsThreads>>

-----------------------------------------------------------------------------
(* internal_service/core/events/builders.py *)

IDEMPOTENCY_NAMESPACE == "a1b2c3d4-e5f6-7890-abcd-ef1234567890"

\* a Customer instance as the hook sees it; None stands for a missing value
CustomerIds == {"U1", "U2"}
Instants == {"T1", "T2"}
Customers ==
    [id : CustomerIds \cup {None}, name : {"Alice"}, email : {"a@x.com"},
     status : {"active", "inactive"}, updated_at : Instants \cup {None}]

\* str(x): the text of a value; str(None) is the text "None"
str(x) == IF x = None THEN "None" ELSE x

\* uuid.uuid5(namespace, name): a name-based hash, one value per (namespace, name)
uuid5(namespace, name) == [namespace |-> namespace, name |-> name]

NoEvent ==
    [event_id |-> "", idempotency_key |-> uuid5("", <<>>), event_type |-> "",
     occurred_at |-> "", source |-> "", entity |-> [type |-> "", id |-> ""],
     payload |-> [name |-> "", email |-> "", status |-> ""],
     metadata |-> [schema_version |-> 0]]

\* the event types the hook passes, and one a caller could pass that itself
\* contains the separator text of the idempotency name
EventTypes == {"record.created", "record.updated", "record.created:customer:U1"}

\* the characters of a text, cut at its colons (a UUID has none)
Text(s) ==
    IF s = "record.created:customer:U1"
    THEN <<"record.created", ":", "customer", ":", "U1">>
    ELSE <<s>>

\* a name built from the entity id alone
idempotency_name_id_only(event_type, customer) ==
    <<"customer", ":">> \o Text(str(customer.id))

\* line 31: f"{event_type}:customer:{customer.id}"
idempotency_name(event_type, customer) ==
    Text(event_type) \o <<":", "customer", ":">> \o Text(str(customer.id))

\* build_customer_event; new_id is the uuid4 drawn for event_id.
\* customer.updated_at.astimezone raises AttributeError when updated_at is None
build_customer_event(event_type, customer, new_id) ==
    LET idempotency_key == uuid5(IDEMPOTENCY_NAMESPACE, idempotency_name(event_type, customer))
    IN IF customer.updated_at = None
       THEN [raised |-> TRUE, error |-> Exc("AttributeError"), event |-> NoEvent]
       ELSE [raised |-> FALSE, error |-> NoError,
             event |-> [event_id |-> UuidText(new_id),
                        idempotency_key |-> idempotency_key,
                        event_type |-> event_type,
                        occurred_at |-> customer.updated_at,
                        source |-> "internal-system",
                        entity |-> [type |-> "customer", id |-> str(customer.id)],
                        payload |-> [name |-> customer.name, email |-> customer.email,
                                     status |-> customer.status],
                        metadata |-> [schema_version |-> 1]]]

-----------------------------------------------------------------------------
(* internal_service/core/kafka/publisher.py *)

NoProducer == 0
\* where one publish call can fail: Producer(config), json.dumps,
\* producer.produce, producer.poll
PublishFaults == {"none", "producer", "serialize", "produce", "poll"}

\* json.dumps(message).encode('utf-8') and its inverse in the consumer
Serialize(message) == [utf8 |-> TRUE, json |-> TRUE, of |-> message]
Garbage == [utf8 |-> FALSE, json |-> FALSE, of |-> NoEvent]

\* _get_producer: the global is set on first use; Producer(config) may raise
_get_producer(prod, fault) ==
    IF prod = NoProducer
    THEN IF fault = "producer"
         THEN [raised |-> TRUE, producer |-> prod, created |-> 0]
         ELSE [raised |-> FALSE, producer |-> 1, created |-> 1]
    ELSE [raised |-> FALSE, producer |-> prod, created |-> 0]

\* a publish that catches KafkaException only: the other failures propagate
publish_kafka_only(prod, brk, topic, key, message, fault) ==
    LET g == _get_producer(prod, fault)
        entry == [topic |-> topic, key |-> IF key # "" THEN key ELSE None,
                  value |-> Serialize(message)]
    IN IF g.raised \/ fault = "serialize"
       THEN [producer |-> g.producer, broker |-> brk, raised |-> TRUE,
             returned |-> "", produced |-> 0, created |-> g.created, logged |-> ""]
       ELSE IF fault = "produce"
       THEN [producer |-> g.producer, broker |-> brk, raised |-> FALSE,
             returned |-> None, produced |-> 1, created |-> g.created, logged |-> "error"]
       ELSE [producer |-> g.producer, broker |-> Append(brk, entry), raised |-> FALSE,
             returned |-> None, produced |-> 1, created |-> g.created,
             logged |-> IF fault = "poll" THEN "error" ELSE "info"]

\* publish(topic, key, message): every exception of the try block is caught
\* (except KafkaException / except Exception), logged, and None is returned
publish(prod, brk, topic, key, message, fault) ==
    LET g == _get_producer(prod, fault)
        entry == [topic |-> topic, key |-> IF key # "" THEN key ELSE None,
                  value |-> Serialize(message)]
    IN IF g.raised
       THEN [producer |-> g.producer, broker |-> brk, raised |-> FALSE,
             returned |-> None, produced |-> 0, created |-> g.created, logged |-> "error"]
       ELSE IF fault = "serialize" \/ fault = "produce"
       THEN [producer |-> g.producer, broker |-> brk, raised |-> FALSE,
             returned |-> None, produced |-> IF fault = "produce" THEN 1 ELSE 0,
             created |-> g.created, logged |-> "error"]
       ELSE [producer |-> g.producer, broker |-> Append(brk, entry), raised |-> FALSE,
             returned |-> None, produced |-> 1, created |-> g.created,
             logged |-> IF fault = "poll" THEN "error" ELSE "info"]

-----------------------------------------------------------------------------
(* internal_service/core/signals.py *)

TOPIC_NAME == "internal.customer.events"

\* customer_post_save(sender, instance, created): the receiver of post_save.
\* Nothing in it catches what build_customer_event raises.
customer_post_save(prod, brk, instance, created, new_id, fault) ==
    LET event_type == IF created THEN "record.created" ELSE "record.updated"
        b == build_customer_event(event_type, instance, new_id)
        p == publish(prod, brk, TOPIC_NAME, str(instance.id), b.event, fault)
    IN IF b.raised
       THEN [raised |-> TRUE, error |-> b.error, producer |-> prod, broker |-> brk,
             build_raised |-> TRUE, published |-> 0, publish_raised |-> FALSE,
             publish_returned |-> "", produced |-> 0, event |-> NoEvent]
       ELSE [raised |-> p.raised, error |-> NoError, producer |-> p.producer,
             broker |-> p.broker,
             build_raised |-> FALSE, published |-> 1, publish_raised |-> p.raised,
             publish_returned |-> p.returned, produced |-> p.produced, event |-> b.event]

NoSave ==
    [n |-> 0, instance |-> [id |-> None, name |-> "", email |-> "", status |-> "", updated_at |-> None],
     created |-> FALSE, fault |-> "none", hook_raised |-> FALSE, save_completed |-> FALSE,
     build_raised |-> FALSE, published |-> 0, publish_raised |-> FALSE,
     publish_returned |-> "", produced |-> 0, event |-> NoEvent]

\* Customer.save(): the row is written, then Django sends post_save with
\* Signal.send, which lets a receiver's exception propagate to the caller of save
SaveCustomer ==
    /\ save.n < MaxSaves
    /\ \E instance \in Customers, created \in BOOLEAN, fault \in PublishFaults :
          LET h == customer_post_save(producer, broker, instance, created, save.n + 1, fault)
          IN /\ save' = [n |-> save.n + 1, instance |-> instance, created |-> created,
                         fault |-> fault, hook_raised |-> h.raised,
                         save_completed |-> ~h.raised,
                         build_raised |-> h.build_raised,
                         published |-> h.published, publish_raised |-> h.publish_raised,
                         publish_returned |-> h.publish_returned,
                         produced |-> h.produced, event |-> h.event]
             /\ producer' = h.producer
             /\ broker' = h.broker

-----------------------------------------------------------------------------
(* internal_service/core/kafka/publisher.py, called from several threads *)

\* the threads of one Django process that save customers
Threads == {"t1", "t2"}
\* number of publish calls entered, over all threads
MaxThreadCalls == 3

IdleThread == [pc |-> "idle", message |-> NoEvent]
TheCustomer == [id |-> "U1", name |-> "Alice", email |-> "a@x.com", status |-> "active", updated_at |-> "T1"]

\* a thread enters publish (from customer_post_save) and, in _get_producer,
\* tests "_producer is None" (line 21)
ThreadEnter(t) ==
    /\ threads[t].pc = "idle"
    /\ thread_calls < MaxThreadCalls
    /\ \E created \in BOOLEAN :
          LET event_type == IF created THEN "record.created" ELSE "record.updated"
              event == build_customer_event(event_type, TheCustomer, thread_calls + 1).event
          IN threads' = [threads EXCEPT ![t] =
                            [pc |-> IF producer = NoProducer THEN "construct" ELSE "produce",
                             message |-> event]]
    /\ thread_calls' = thread_calls + 1
    /\ UNCHANGED <<producer, broker, producers, save>>

\* lines 22-32 in a thread that saw None: Producer(config) is constructed and
\* assigned to the global, or raises (publish catches, logs, returns None)
ThreadConstruct(t) ==
    /\ threads[t].pc = "construct"
    /\ \E ok \in BOOLEAN :
          IF ok
          THEN /\ producers' = Append(producers, 0)
               /\ producer' = Len(producers) + 1
               /\ threads' = [threads EXCEPT ![t].pc = "produce"]
          ELSE /\ threads' = [threads EXCEPT ![t] = IdleThread]
               /\ UNCHANGED <<producers, producer>>
    /\ UNCHANGED <<broker, thread_calls, save>>

\* line 33 returns the global as it is now; publish enqueues the message on
\* that producer (lines 74-85) and returns None
ThreadProduce(t) ==
    /\ threads[t].pc = "produce"
    /\ producers' = [producers EXCEPT ![producer] = @ + 1]
    /\ broker' = Append(broker, [topic |-> TOPIC_NAME, key |-> str(TheCustomer.id),
                                  value |-> Serialize(threads[t].message)])
    /\ threads' = [threads EXCEPT ![t] = IdleThread]
    /\ UNCHANGED <<producer, thread_calls, save>>

NextThreads ==
    \/ \E t \in Threads : ThreadEnter(t) /\ UNCHANGED <<varsHttp, varsConsumer>>
    \/ \E t \in Threads : ThreadConstruct(t) /\ UNCHANGED <<varsHttp, varsConsumer>>
    \/ \E t \in Threads : ThreadProduce(t) /\ UNCHANGED <<varsHttp, varsConsumer>>

-----------------------------------------------------------------------------
(* sync_svc/crm_services/servicenow/client.py and service.py *)

\* client = HttpClient(base_url=..., auth=...): max_retries and jitter by default
ServiceNowClient == HttpClient(ServiceNowBase, DefaultMaxRetries, TRUE)

\* how the downstream API can answer the attempts of one post
DownstreamOutcomes ==
    { Resp(200, "json"), Resp(404, "json"), Resp(503, "json"), Exc("ConnectionError"), Interrupt }
DownstreamScripts == [1..(DefaultMaxRetries + 1) -> DownstreamOutcomes]

\* client.post(url=postTableUrl, ...): the finished frames of _execute_with_retry,
\* one for every way the downstream answers
PostRuns ==
    { RunCall(ServiceNowClient,
              EnterCall(ServiceNowClient, "POST", postTableUrl, FunctionName("POST"), 1),
              script) : script \in DownstreamScripts }

\* CreateIncidentRecord: builds json_data and returns (or raises) what post does
CreateIncidentRecord(incident_data, idempotency_key, run) ==
    [json_data |-> [short_description |-> idempotency_key,
                    description |-> Serialize(incident_data)],
     pc |-> run.pc, response |-> run.value, error |-> run.error,
     requests |-> Cardinality({i \in DOMAIN run.trace : run.trace[i].ev = "request"})]

mock_transformation(data) == data

process_event(event, run) ==
    LET transformed_data == mock_transformation(event)
    IN CreateIncidentRecord(transformed_data.entity, transformed_data.idempotency_key, run)

-----------------------------------------------------------------------------
(* sync_svc/consumer.py *)

DLQ_TOPIC == "internal.customer.events.dlq"

\* a handler that catches only HTTP errors
CaughtByExceptException_http_only(error) == error.class = "HTTPError"

\* except Exception: catches every exception but the BaseException-only ones
CaughtByExceptException(error) == error.class \notin BaseExceptions

\* a dead-letter key taken from the entity instead of the event
DlqKey_entity_id(event) == event.entity.id

\* line 65: key=event.get('event_id', '')
DlqKey(event) == event.event_id

\* a handler that copies every envelope to the dead-letter topic, delivered or not
handle_event_dlq_always(prod, brk, event, run, fault) ==
    LET d == process_event(event, run)
        p == publish(prod, brk, DLQ_TOPIC, DlqKey(event), event, fault)
        call == [topic |-> DLQ_TOPIC, key |-> DlqKey(event), message |-> event]
    IN IF d.pc = "returned" \/ CaughtByExceptException(d.error)
       THEN [outcome |-> "returned", error |-> NoError,
             delivery |-> d.pc, delivery_error |-> d.error,
             requests |-> d.requests, publish_calls |-> <<call>>,
             dlq_failed |-> (p.raised \/ p.logged = "error"),
             producer |-> p.producer, broker |-> p.broker]
       ELSE [outcome |-> "raised", error |-> d.error,
             delivery |-> d.pc, delivery_error |-> d.error,
             requests |-> d.requests, publish_calls |-> <<>>, dlq_failed |-> FALSE,
             producer |-> prod, broker |-> brk]

\* handle_event(event): run is what the downstream call does, fault where the
\* dead-letter publish fails (if it is made)
handle_event(prod, brk, event, run, fault) ==
    LET d == process_event(event, run)
        p == publish(prod, brk, DLQ_TOPIC, DlqKey(event), event, fault)
        call == [topic |-> DLQ_TOPIC, key |-> DlqKey(event), message |-> event]
    IN IF d.pc = "returned"
       THEN [outcome |-> "returned", error |-> NoError,
             delivery |-> d.pc, delivery_error |-> d.error,
             requests |-> d.requests, publish_calls |-> <<>>, dlq_failed |-> FALSE,
             producer |-> prod, broker |-> brk]
       ELSE IF CaughtByExceptException(d.error)
       THEN \* the inner try: a raising publish is caught, logged, dropped
            [outcome |-> "returned", error |-> NoError,
             delivery |-> d.pc, delivery_error |-> d.error,
             requests |-> d.requests, publish_calls |-> <<call>>,
             dlq_failed |-> (p.raised \/ p.logged = "error"),
             producer |-> p.producer, broker |-> p.broker]
       ELSE [outcome |-> "raised", error |-> d.error,
             delivery |-> d.pc, delivery_error |-> d.error,
             requests |-> d.requests, publish_calls |-> <<>>, dlq_failed |-> FALSE,
             producer |-> prod, broker |-> brk]

\* a handler other than handle_event: it returns, raises an Exception, or is
\* interrupted
other_handler(prod, brk, event, how) ==
    [outcome |-> IF how = "returns" THEN "returned" ELSE "raised",
     error |-> IF how = "returns" THEN NoError ELSE Exc(how),
     delivery |-> "none", delivery_error |-> NoError,
     requests |-> 0, publish_calls |-> <<>>, dlq_failed |-> FALSE,
     producer |-> prod, broker |-> brk]
OtherHandlerOutcomes == {"returns", "RuntimeError", "KeyboardInterrupt"}

NoMsg == [offset |-> 0, value |-> Garbage, error |-> FALSE, present |-> FALSE]
NoDispatch ==
    [offset |-> 0, decoded |-> FALSE, invoked |-> FALSE, event |-> NoEvent,
     outcome |-> "none", error |-> NoError, delivery |-> "none",
     delivery_error |-> NoError, requests |-> 0,
     publish_calls |-> <<>>, dlq_failed |-> FALSE]

\* what upstream appends to internal.customer.events: serialized envelopes of
\* the builder; bytes that are not UTF-8 JSON stand for any other writer
AppendedValues(n) ==
    { Serialize(build_customer_event(t, [id |-> "U1", name |-> "Alice", email |-> "a@x.com",
                                          status |-> "active", updated_at |-> "T1"], n).event)
        : t \in {"record.created", "record.updated"} } \cup {Garbage}

\* a decoder that turns bytes it cannot decode into an empty envelope
Decode_lenient(value) ==
    [raised |-> FALSE, error |-> NoError, event |-> value.of]

\* json.loads(msg.value().decode('utf-8'))
Decode(value) ==
    IF value.utf8 /\ value.json
    THEN [raised |-> FALSE, error |-> NoError, event |-> value.of]
    ELSE [raised |-> TRUE,
          error |-> Exc(IF value.utf8 THEN "JSONDecodeError" ELSE "UnicodeDecodeError"),
          event |-> NoEvent]

\* a writer appends a message to the topic
AppendMessage ==
    /\ Len(topic_log) < MaxLog
    /\ \E v \in AppendedValues(Len(topic_log) + 1) :
          /\ topic_log' = Append(topic_log, v)
          /\ done_count' = [i \in 1..(Len(topic_log) + 1) |-> IF i <= Len(topic_log) THEN done_count[i] ELSE 0]
    /\ UNCHANGED <<cpc, handler, position, committed, msg, last, closes, start_error, timeouts, restarts, prev_exit, stats, producer, broker>>

\* start(), lines 24-31: a new process creates the Consumer and subscribes; the
\* group's committed offset (earliest when none) is where it resumes
Start ==
    /\ cpc \in {"idle", "stopped", "failed", "crashed"}
    /\ restarts < MaxStarts
    /\ cpc' = "polling"
    /\ position' = committed
    /\ msg' = NoMsg
    /\ closes' = 0
    /\ start_error' = NoError
    /\ timeouts' = 0
    /\ restarts' = restarts + 1
    /\ prev_exit' = IF cpc = "idle" THEN "none" ELSE cpc
    /\ producer' = NoProducer
    /\ UNCHANGED <<handler, topic_log, committed, last, done_count, stats, broker>>

\* a finally clause that leaves the consumer open
Close_skipped(pos) ==
    /\ closes' = closes
    /\ committed' = pos

\* the finally clause: consumer.close(), which commits the stored offsets
\* (enable.auto.commit is left at the client's default, true)
Close(pos) ==
    /\ closes' = closes + 1
    /\ committed' = pos

\* a loop that takes an empty poll for the end of the topic and stops
PollTimeout_stops ==
    /\ cpc = "polling"
    /\ timeouts' = Min(timeouts + 1, MaxTimeouts)
    /\ cpc' = "stopped"
    /\ Close(position)
    /\ UNCHANGED <<handler, topic_log, position, msg, last, done_count, start_error, restarts, prev_exit, stats, producer, broker>>

\* poll(1.0) returns None: continue
PollTimeout ==
    /\ cpc = "polling"
    /\ timeouts' = Min(timeouts + 1, MaxTimeouts)
    /\ UNCHANGED <<cpc, handler, topic_log, position, committed, msg, last, done_count, closes, start_error, restarts, prev_exit, stats, producer, broker>>

\* the message poll returns when the broker reports an error: error() is set
ErrorMsg == [offset |-> 0, value |-> Garbage, error |-> TRUE, present |-> TRUE]

\* a loop that logs a message carrying an error and polls again
PollError_continues ==
    /\ cpc = "polling"
    /\ msg' = ErrorMsg
    /\ timeouts' = 0
    /\ UNCHANGED <<cpc, handler, topic_log, position, committed, last, done_count, closes, start_error, restarts, prev_exit, stats, producer, broker>>

\* poll(1.0) returns a message whose error() is set: KafkaException is raised,
\* close() runs, the exception leaves start()
PollError ==
    /\ cpc = "polling"
    /\ msg' = ErrorMsg
    /\ cpc' = "failed"
    /\ start_error' = Exc("KafkaException")
    /\ Close(position)
    /\ timeouts' = 0
    /\ UNCHANGED <<handler, topic_log, position, last, done_count, restarts, prev_exit, stats, producer, broker>>

\* poll(1.0) returns the next message of the topic; the client stores its
\* offset as consumed
PollMessage ==
    /\ cpc = "polling"
    /\ position < Len(topic_log)
    /\ msg' = [offset |-> position + 1, value |-> topic_log[position + 1], error |-> FALSE, present |-> TRUE]
    /\ position' = position + 1
    /\ cpc' = "received"
    /\ timeouts' = 0
    /\ UNCHANGED <<handler, topic_log, committed, last, done_count, closes, start_error, restarts, prev_exit, stats, producer, broker>>

\* KeyboardInterrupt while the loop waits in poll: logged, close(), start() returns
InterruptPoll ==
    /\ cpc = "polling"
    /\ cpc' = "stopped"
    /\ Close(position)
    /\ UNCHANGED <<handler, topic_log, position, msg, last, done_count, start_error, timeouts, restarts, prev_exit, stats, producer, broker>>

\* lines 43-51 for the received message: decode, call the handler; whatever
\* leaves the try block goes through except KeyboardInterrupt and finally
Dispatched(d, h) ==
    /\ last' = [offset |-> msg.offset, decoded |-> ~d.raised, invoked |-> ~d.raised,
                event |-> d.event, outcome |-> h.outcome, error |-> h.error,
                delivery |-> h.delivery, delivery_error |-> h.delivery_error,
                requests |-> h.requests,
                publish_calls |-> h.publish_calls, dlq_failed |-> h.dlq_failed]
    /\ producer' = h.producer
    /\ broker' = h.broker
    /\ stats' = [delivery_raised |-> stats.delivery_raised + (IF h.delivery = "raised" THEN 1 ELSE 0),
                 dlq_calls |-> stats.dlq_calls + Len(h.publish_calls)]
    /\ msg' = NoMsg
    /\ IF h.outcome = "returned"
       THEN /\ cpc' = "polling"
            /\ done_count' = [done_count EXCEPT ![msg.offset] = Min(@ + 1, MaxStarts)]
            /\ UNCHANGED <<closes, committed, start_error>>
       ELSE /\ done_count' = done_count
            /\ Close(position)
            /\ IF h.error.class = "KeyboardInterrupt"
               THEN cpc' = "stopped" /\ start_error' = NoError
               ELSE cpc' = "failed" /\ start_error' = h.error

Dispatch ==
    /\ cpc = "received"
    /\ LET d == Decode(msg.value)
       IN IF d.raised
          THEN Dispatched(d, [outcome |-> "raised", error |-> d.error, delivery |-> "none",
                              delivery_error |-> NoError, requests |-> 0, publish_calls |-> <<>>, dlq_failed |-> FALSE,
                              producer |-> producer, broker |-> broker])
          ELSE IF handler = "handle_event"
          THEN \E run \in PostRuns, fault \in PublishFaults \ {"serialize"} :
                  Dispatched(d, handle_event(producer, broker, d.event, run, fault))
          ELSE \E how \in OtherHandlerOutcomes :
                  Dispatched(d, other_handler(producer, broker, d.event, how))
    /\ UNCHANGED <<handler, topic_log, position, timeouts, restarts, prev_exit>>

\* the client's background auto-commit (auto.commit.interval.ms) commits the
\* stored offsets while the process runs, whatever the loop is doing
AutoCommit ==
    /\ cpc \in {"polling", "received"}
    /\ committed < position
    /\ committed' = position
    /\ UNCHANGED <<cpc, handler, topic_log, position, msg, last, done_count, closes, start_error, timeouts, restarts, prev_exit, stats, producer, broker>>

\* the consumer process dies: nothing of the finally clause runs
Crash ==
    /\ cpc \in {"polling", "received"}
    /\ cpc' = "crashed"
    /\ msg' = NoMsg
    /\ UNCHANGED <<handler, topic_log, position, committed, last, done_count, closes, start_error, timeouts, restarts, prev_exit, stats, producer, broker>>

\* one run of start() in one process
NextConsumer ==
    \/ AppendMessage /\ UNCHANGED <<varsHttp, save, varsThreads>>
    \/ Start /\ cpc = "idle" /\ UNCHANGED <<varsHttp, save, varsThreads>>
    \/ PollTimeout /\ UNCHANGED <<varsHttp, save, varsThreads>>
    \/ PollError /\ UNCHANGED <<varsHttp, save, varsThreads>>
    \/ PollMessage /\ UNCHANGED <<varsHttp, save, varsThreads>>
    \/ InterruptPoll /\ UNCHANGED <<varsHttp, save, varsThreads>>
    \/ Dispatch /\ UNCHANGED <<varsHttp, save, varsThreads>>

\* the consumer group over time: the process may die and be started again, and
\* the client commits offsets in the background
NextGroup ==
    \/ AppendMessage /\ UNCHANGED <<varsHttp, save, varsThreads>>
    \/ Start /\ UNCHANGED <<varsHttp, save, varsThreads>>
    \/ PollTimeout /\ UNCHANGED <<varsHttp, save, varsThreads>>
    \/ PollError /\ UNCHANGED <<varsHttp, save, varsThreads>>
    \/ PollMessage /\ UNCHANGED <<varsHttp, save, varsThreads>>
    \/ InterruptPoll /\ UNCHANGED <<varsHttp, save, varsThreads>>
    \/ Dispatch /\ UNCHANGED <<varsHttp, save, varsThreads>>
    \/ AutoCommit /\ UNCHANGED <<varsHttp, save, varsThreads>>
    \/ Crash /\ UNCHANGED <<varsHttp, save, varsThreads>>

NextSave == SaveCustomer /\ UNCHANGED <<varsHttp, varsConsumer, varsThreads>>

\* a client constructed with any base_url, max_retries and jitter; nothing else runs
InitHttp ==
    /\ client \in { HttpClient(b, n, j) : b \in {None, ServiceNowBase}, n \in (-1)..MaxRetries, j \in BOOLEAN }
    /\ http = IdleFrame
    /\ used_ids = {}
    /\ cpc = "idle"
    /\ handler = "handle_event"
    /\ topic_log = <<>>
    /\ position = 0
    /\ committed = 0
    /\ msg = NoMsg
    /\ last = NoDispatch
    /\ done_count = <<>>
    /\ closes = 0
    /\ start_error = NoError
    /\ timeouts = 0
    /\ restarts = 0
    /\ prev_exit = "none"
    /\ stats = [delivery_raised |-> 0, dlq_calls |-> 0]
    /\ producer = NoProducer
    /\ broker = <<>>
    /\ save = NoSave
    /\ threads = [t \in Threads |-> IdleThread]
    /\ producers = <<>>
    /\ thread_calls = 0

\* EventConsumer(handler=...) constructed, start() not yet called; the
\* ServiceNow client is the module-level one
InitConsumer ==
    /\ client = ServiceNowClient
    /\ http = IdleFrame
    /\ used_ids = {}
    /\ cpc = "idle"
    /\ handler \in {"handle_event", "other"}
    /\ topic_log = <<>>
    /\ position = 0
    /\ committed = 0
    /\ msg = NoMsg
    /\ last = NoDispatch
    /\ done_count = <<>>
    /\ closes = 0
    /\ start_error = NoError
    /\ timeouts = 0
    /\ restarts = 0
    /\ prev_exit = "none"
    /\ stats = [delivery_raised |-> 0, dlq_calls |-> 0]
    /\ producer = NoProducer
    /\ broker = <<>>
    /\ save = NoSave
    /\ threads = [t \in Threads |-> IdleThread]
    /\ producers = <<>>
    /\ thread_calls = 0

\* the __main__ block: EventConsumer(handler=handle_event)
InitGroup ==
    /\ client = ServiceNowClient
    /\ http = IdleFrame
    /\ used_ids = {}
    /\ cpc = "idle"
    /\ handler = "handle_event"
    /\ topic_log = <<>>
    /\ position = 0
    /\ committed = 0
    /\ msg = NoMsg
    /\ last = NoDispatch
    /\ done_count = <<>>
    /\ closes = 0
    /\ start_error = NoError
    /\ timeouts = 0
    /\ restarts = 0
    /\ prev_exit = "none"
    /\ stats = [delivery_raised |-> 0, dlq_calls |-> 0]
    /\ producer = NoProducer
    /\ broker = <<>>
    /\ save = NoSave
    /\ threads = [t \in Threads |-> IdleThread]
    /\ producers = <<>>
    /\ thread_calls = 0

\* the Django process before any save: _producer = None
InitSave ==
    /\ client = ServiceNowClient
    /\ http = IdleFrame
    /\ used_ids = {}
    /\ cpc = "idle"
    /\ handler = "handle_event"
    /\ topic_log = <<>>
    /\ position = 0
    /\ committed = 0
    /\ msg = NoMsg
    /\ last = NoDispatch
    /\ done_count = <<>>
    /\ closes = 0
    /\ start_error = NoError
    /\ timeouts = 0
    /\ restarts = 0
    /\ prev_exit = "none"
    /\ stats = [delivery_raised |-> 0, dlq_calls |-> 0]
    /\ producer = NoProducer
    /\ broker = <<>>
    /\ save = NoSave
    /\ threads = [t \in Threads |-> IdleThread]
    /\ producers = <<>>
    /\ thread_calls = 0

\* the Django process before any save, its threads idle
InitThreads ==
    /\ client = ServiceNowClient
    /\ http = IdleFrame
    /\ used_ids = {}
    /\ cpc = "idle"
    /\ handler = "handle_event"
    /\ topic_log = <<>>
    /\ position = 0
    /\ committed = 0
    /\ msg = NoMsg
    /\ last = NoDispatch
    /\ done_count = <<>>
    /\ closes = 0
    /\ start_error = NoError
    /\ timeouts = 0
    /\ restarts = 0
    /\ prev_exit = "none"
    /\ stats = [delivery_raised |-> 0, dlq_calls |-> 0]
    /\ producer = NoProducer
    /\ broker = <<>>
    /\ save = NoSave
    /\ threads = [t \in Threads |-> IdleThread]
    /\ producers = <<>>
    /\ thread_calls = 0

SpecHttp == InitHttp /\ [][NextHttp]_vars
SpecConsumer == InitConsumer /\ [][NextConsumer]_vars
SpecGroup == InitGroup /\ [][NextGroup]_vars
SpecSave == InitSave /\ [][NextSave]_vars
SpecThreads == InitThreads /\ [][NextThreads]_vars

-----------------------------------------------------------------------------
(* Properties of HttpClient._execute_with_retry (SpecHttp) *)

\* largest attempt index the backoff formula is compared on
MaxBackoffAttempt == 8

IsRequest(e) == e.ev = "request"
IsSleep(e) == e.ev = "sleep"
\* the HTTP attempts of the current call and the sleeps it made, in order
Attempts == SelectSeq(http.trace, IsRequest)
SleepsMade == SelectSeq(http.trace, IsSleep)
NAttempts == Len(Attempts)
CallStarted == http.pc # "idle" /\ http.method \in {"GET", "POST"}

\* the classes of the specification: a failed attempt is retryable when it is a
\* connection failure, a timeout, a redirect loop, another transport error, or
\* an HTTP status >= 500 or 429; terminal when it is another HTTP error status
StatedRetryable(o) ==
    \/ o.kind = "exception" /\ o.class \in {"ConnectionError", "Timeout", "TooManyRedirects", "RequestException"}
    \/ o.kind = "response" /\ (o.status >= 500 \/ o.status = 429)
StatedTerminal(o) ==
    o.kind = "response" /\ o.status >= 400 /\ o.status <= 499 /\ o.status # 429
StatedSuccess(o) == o.kind = "response" /\ o.status < 400
\* the error an attempt's outcome is raised as
ErrorOf(o) == IF o.kind = "response" THEN HttpErr(o.status) ELSE o
StatedBackoff(i) == 2 ^ (IF i + 1 < 5 THEN i + 1 ELSE 5)

FirstRetryable(n) == \A i \in 1..n : StatedRetryable(Attempts[i].outcome)
\* no sleep follows the last attempt
NoSleepAfterLastAttempt ==
    \A i \in DOMAIN http.trace :
        IsSleep(http.trace[i]) => \E j \in DOMAIN http.trace : j > i /\ IsRequest(http.trace[j])

\* C1: in one call with max_retries = M, when the first k <= M attempts fail
\* with retryable errors the client goes on to attempt k+1, and when that
\* attempt succeeds the call returns its response after exactly k+1 attempts
\* and k sleeps, the sleep after attempt i (0-based) being 2^min(i+1,5) seconds
\* (the formula is also compared for attempt indexes beyond the cap).
C1_RetryThenSuccess ==
    /\ \A a \in 0..MaxBackoffAttempt : _calculate_backoff(a) = StatedBackoff(a)
    /\ CallStarted =>
        /\ (FirstRetryable(NAttempts) /\ NAttempts <= client.max_retries)
              => /\ http.pc = "loop"
                 /\ http.attempt = NAttempts
                 /\ Len(SleepsMade) = NAttempts
        /\ (NAttempts >= 1 /\ FirstRetryable(NAttempts - 1)
               /\ NAttempts - 1 <= client.max_retries
               /\ StatedSuccess(Attempts[NAttempts].outcome))
              => /\ http.pc = "returned"
                 /\ ~http.returned_none
                 /\ http.value = ResponseDict(Attempts[NAttempts].outcome)
                 /\ Len(SleepsMade) = NAttempts - 1
                 /\ \A i \in 1..Len(SleepsMade) :
                        /\ SleepsMade[i].secs = StatedBackoff(i - 1)
                        /\ SleepsMade[i].attempt = i - 1
                 /\ NoSleepAfterLastAttempt

\* a call with the default max_retries returned after two retryable failures
C1_Witness ==
    /\ client.max_retries = DefaultMaxRetries
    /\ http.pc = "returned"
    /\ NAttempts = 3
    /\ FirstRetryable(2)
    /\ Len(SleepsMade) = 2

\* C2: when every attempt of a call fails with a retryable error and
\* max_retries = M >= 0, the client makes exactly M+1 attempts, sleeps exactly M
\* times and never after the last attempt, and raises the error of attempt M+1.
C2_ExhaustedRetries ==
    (CallStarted /\ client.max_retries >= 0 /\ FirstRetryable(NAttempts)) =>
        /\ NAttempts <= client.max_retries + 1
        /\ (http.pc \in {"raised", "returned"}) => NAttempts = client.max_retries + 1
        /\ NAttempts = client.max_retries + 1
              => /\ http.pc = "raised"
                 /\ http.error = ErrorOf(Attempts[NAttempts].outcome)
                 /\ Len(SleepsMade) = client.max_retries
                 /\ NoSleepAfterLastAttempt

\* the default client gave up after 4 attempts that all answered HTTP 500
C2_Witness ==
    /\ client.max_retries = DefaultMaxRetries
    /\ http.pc = "raised"
    /\ NAttempts = 4
    /\ \A i \in 1..4 : Attempts[i].outcome = Resp(500, "text")
    /\ Len(SleepsMade) = 3

\* C3: when an attempt fails with a terminal error (HTTP 4xx other than 429)
\* the call raises that error at once: no further attempt, no sleep after it;
\* a terminal error on the first attempt gives 1 attempt and 0 sleeps.
C3_TerminalError ==
    (CallStarted /\ NAttempts >= 1 /\ StatedTerminal(Attempts[NAttempts].outcome)) =>
        /\ http.pc = "raised"
        /\ http.error = ErrorOf(Attempts[NAttempts].outcome)
        /\ NoSleepAfterLastAttempt
        /\ Len(SleepsMade) = NAttempts - 1
        /\ NAttempts = 1 => Len(SleepsMade) = 0

\* HTTP 404 on the first attempt of a client that could retry
C3_Witness ==
    /\ client.max_retries = DefaultMaxRetries
    /\ http.pc = "raised"
    /\ NAttempts = 1
    /\ Attempts[1].outcome = Resp(404, "json")
    /\ SleepsMade = <<>>

-----------------------------------------------------------------------------
(* Properties of the consumer loop and of handle_event (SpecConsumer) *)

\* the envelope as it was received: the decoded value of the dispatched message
Received == Decode(topic_log[last.offset]).event
HandledByHandleEvent == handler = "handle_event" /\ last.invoked
\* the downstream call raised an exception (not an interrupt of the process)
DeliveryRaised ==
    /\ HandledByHandleEvent
    /\ last.delivery = "raised"
    /\ last.delivery_error.class # "KeyboardInterrupt"

\* C4: whenever the downstream call made by handle_event raises (terminal HTTP
\* error, retries exhausted, any other exception), handle_event publishes
\* exactly once for that envelope, to internal.customer.events.dlq, with the
\* envelope's event_id as key and the envelope as received as message.
C4_DeadLetterOnFailure ==
    DeliveryRaised =>
        /\ Len(last.publish_calls) = 1
        /\ last.publish_calls[1].topic = "internal.customer.events.dlq"
        /\ last.publish_calls[1].key = Received.event_id
        /\ last.publish_calls[1].message = Received
        /\ ~last.dlq_failed =>
              /\ broker # <<>>
              /\ broker[Len(broker)].topic = "internal.customer.events.dlq"
              /\ broker[Len(broker)].key = Received.event_id
              /\ Decode(broker[Len(broker)].value).event = Received

\* HTTP 503 on 4 consecutive attempts, then one dead-letter publish that the
\* producer accepted
C4_Witness ==
    /\ DeliveryRaised
    /\ last.requests = 4
    /\ last.delivery_error = HttpErr(503)
    /\ Len(last.publish_calls) = 1
    /\ ~last.dlq_failed
    /\ Received.event_id = "uuid-1"

\* C5: an exception raised by the handler invoked for a message never leaves
\* start(): the loop is not terminated by it (whatever the handler is).
C5_HandlerExceptionContained ==
    ~ ( /\ last.invoked
        /\ last.outcome = "raised"
        /\ last.error.class # "KeyboardInterrupt"
        /\ cpc = "failed"
        /\ start_error = last.error )

\* C6: handle_event returns normally when the delivery succeeds, when it
\* raises and the dead-letter publish succeeds, and when it raises and the
\* dead-letter publish fails; it makes at most one publish and none on success.
C6_HandleEventReturns ==
    (HandledByHandleEvent /\ (last.delivery = "returned" \/ DeliveryRaised)) =>
        /\ last.outcome = "returned"
        /\ last.error = NoError
        /\ DeliveryRaised => start_error # last.delivery_error
        /\ done_count[last.offset] >= 1
        /\ Len(last.publish_calls) <= 1
        /\ last.delivery = "returned" => last.publish_calls = <<>>

\* the delivery raised, the dead-letter publish failed, handle_event returned
\* and the loop is polling again
C6_Witness ==
    /\ DeliveryRaised
    /\ last.dlq_failed
    /\ last.outcome = "returned"
    /\ cpc = "polling"

\* C7: a poll that times out invokes no handler and does not end the loop: the
\* loop is polling again, for any number of consecutive timeouts.
C7_TimeoutKeepsPolling ==
    [][timeouts' > timeouts =>
          /\ cpc' = "polling"
          /\ last' = last
          /\ done_count' = done_count
          /\ closes' = closes
          /\ start_error' = start_error
          /\ position' = position]_vars

\* the counted number of consecutive timeouts happened before any dispatch, and
\* the loop still polls
C7_Witness ==
    /\ timeouts = MaxTimeouts
    /\ cpc = "polling"
    /\ last = NoDispatch
    /\ closes = 0

-----------------------------------------------------------------------------
(* Exits of the consumer loop (SpecConsumer) *)

\* the last poll returned a message carrying a broker-reported error
PolledError == msg.present /\ msg.error

\* C15: when poll returns a message carrying a broker-reported error, the
\* loop does not invoke the handler for it, terminates, and the error
\* propagates out of start(): no reconnect and no further poll.
C15_PollErrorIsFatal ==
    [][ /\ (PolledError' /\ ~PolledError) =>
              /\ cpc' = "failed"
              /\ start_error' = Exc("KafkaException")
              /\ last' = last
              /\ done_count' = done_count
              /\ stats' = stats
              /\ broker' = broker
        /\ PolledError =>
              /\ cpc' = "failed"
              /\ start_error' = start_error
              /\ position' = position
              /\ last' = last
              /\ msg' = msg ]_vars

\* a message was handled, then poll returned an error while another message
\* was waiting in the topic: start() ended with the KafkaException
C15_Witness ==
    /\ PolledError
    /\ cpc = "failed"
    /\ start_error = Exc("KafkaException")
    /\ last.invoked
    /\ position < Len(topic_log)

\* start() is over: it returned or an exception left it
StartEnded == cpc \in {"stopped", "failed"}

\* C16: once the consumer is created and subscribed, start() never ends (by
\* interrupt, by poll error, by any exception raised inside the loop) without
\* consumer.close() having been called exactly once; after an interrupt
\* start() returns normally and does not poll again.
C16_ClosedOnEveryExit ==
    /\ [](StartEnded => closes = 1)
    /\ [](cpc \in {"polling", "received"} => closes = 0)
    /\ [](cpc = "stopped" => start_error = NoError)
    /\ [][StartEnded =>
             /\ cpc' = cpc
             /\ closes' = closes
             /\ position' = position
             /\ timeouts' = timeouts
             /\ msg' = msg]_vars

\* an interrupt arrived while the loop waited in poll, after a message had
\* been handled: start() returned and the consumer is closed
C16_Witness ==
    /\ cpc = "stopped"
    /\ closes = 1
    /\ start_error = NoError
    /\ last.invoked
    /\ last.outcome = "returned"

\* the delivery of the last envelope was cut short by an interrupt of the
\* process (which also ends the run): handle_event did not handle it
DeliveryInterrupted ==
    /\ HandledByHandleEvent
    /\ last.delivery = "raised"
    /\ last.delivery_error.class = "KeyboardInterrupt"
\* envelopes whose delivery raised an exception, over all dispatches
DeliveriesRaised == stats.delivery_raised - (IF DeliveryInterrupted THEN 1 ELSE 0)

\* C19: handle_event publishes to the dead-letter topic only if the delivery
\* of that same envelope raised; when process_event returns a response it
\* makes no publish to any topic; over any sequence of handled envelopes the
\* number of dead-letter publishes equals the number of envelopes whose
\* delivery raised.
C19_NoSpuriousDeadLetter ==
    /\ [](stats.dlq_calls = DeliveriesRaised)
    /\ [](HandledByHandleEvent =>
            /\ last.publish_calls # <<>> => DeliveryRaised
            /\ last.delivery = "returned" => last.publish_calls = <<>>
            /\ \A i \in DOMAIN last.publish_calls :
                  /\ last.publish_calls[i].topic = "internal.customer.events.dlq"
                  /\ last.publish_calls[i].message = Received)
    /\ [][(cpc = "received" /\ handler = "handle_event") =>
             /\ last'.delivery = "returned" => (broker' = broker /\ stats'.dlq_calls = stats.dlq_calls)
             /\ broker' # broker =>
                   /\ last'.delivery = "raised"
                   /\ Len(broker') = Len(broker) + 1
                   /\ broker'[Len(broker')].topic = "internal.customer.events.dlq"]_vars

\* two envelopes were handled: the delivery of the first raised and it was
\* dead-lettered, the second was delivered and nothing was published for it
C19_Witness ==
    /\ HandledByHandleEvent
    /\ last.offset = 2
    /\ last.delivery = "returned"
    /\ last.publish_calls = <<>>
    /\ stats.delivery_raised = 1
    /\ stats.dlq_calls = 1
    /\ Len(broker) = 1

\* bytes that are not UTF-8 JSON
Undecodable(value) == ~(value.utf8 /\ value.json)
\* the last message taken out of poll for dispatch was undecodable
UndecodableReceived == last.offset > 0 /\ Undecodable(topic_log[last.offset])

\* C20: a received message whose value is not UTF-8 JSON is never dispatched:
\* the decode error is raised before the handler is invoked, the loop ends
\* with that error propagated out of start() after the consumer is closed,
\* nothing is published to the dead-letter topic for it, and the messages
\* after it are not consumed by this run.
C20_UndecodableEndsLoop ==
    /\ [](UndecodableReceived =>
            /\ ~last.invoked
            /\ last.publish_calls = <<>>
            /\ done_count[last.offset] = 0
            /\ cpc = "failed"
            /\ start_error.class \in {"UnicodeDecodeError", "JSONDecodeError"}
            /\ closes = 1
            /\ position = last.offset
            /\ msg = NoMsg)
    /\ [][(cpc = "received" /\ Undecodable(msg.value)) =>
             /\ broker' = broker
             /\ stats' = stats
             /\ cpc' \in {"received", "failed"}]_vars
    /\ [][UndecodableReceived =>
             /\ position' = position
             /\ last' = last
             /\ broker' = broker
             /\ cpc' = cpc]_vars

\* the first of two messages was undecodable: start() failed with the decode
\* error and the second message stays unconsumed
C20_Witness ==
    /\ UndecodableReceived
    /\ last.offset = 1
    /\ Len(topic_log) = 2
    /\ ~Undecodable(topic_log[2])
    /\ position = 1
    /\ cpc = "failed"
    /\ start_error = Exc("UnicodeDecodeError")
    /\ broker = <<>>

-----------------------------------------------------------------------------
(* At-least-once consumption (SpecGroup) *)

Decodable(i) == ~Decode(topic_log[i]).raised

\* C10: no message is lost by a crash: once the consumer runs again in the
\* same group after a crash, every message it will not be handed again (its
\* offset is below the position it resumed at) had a handler run to completion.
C10_AtLeastOnce ==
    (prev_exit = "crashed" /\ cpc = "polling") =>
        \A i \in 1..Len(topic_log) :
            (i <= position /\ Decodable(i)) => done_count[i] >= 1

-----------------------------------------------------------------------------
(* Properties of publish and of the post-save hook (SpecSave) *)

\* C8: publish never propagates a failure: for a failure of the producer
\* creation, the serialization, produce or poll it returns None, the save that
\* called it completes, and it makes at most one enqueue attempt.
C8_PublishNeverRaises ==
    (save.n > 0 /\ save.published = 1) =>
        /\ ~save.publish_raised
        /\ save.publish_returned = None
        /\ ~save.hook_raised
        /\ save.save_completed
        /\ save.produced <= 1

\* a save whose publish failed in produce
C8_Witness ==
    /\ save.n > 0
    /\ save.published = 1
    /\ save.fault = "produce"
    /\ save.produced = 1
    /\ save.save_completed

\* C9: a construction error of the event builder does not leave
\* customer_post_save: the save completes and no event is published.
C9_ConstructionErrorContained ==
    (save.n > 0 /\ save.build_raised) =>
        /\ ~save.hook_raised
        /\ save.save_completed
        /\ save.published = 0

-----------------------------------------------------------------------------
(* Properties of build_customer_event (SpecSave) *)

\* entity snapshots with every required field, over several names, emails,
\* statuses and instants
Snapshots ==
    [id : CustomerIds, name : {"Alice", "Bob"}, email : {"a@x.com", "b@x.com"},
     status : {"active", "inactive"}, updated_at : Instants]
\* the envelopes built for every event type and snapshot
Builds == { build_customer_event(t, c, 1).event : t \in EventTypes, c \in Snapshots }
\* the (event_type, entity type, entity id) of an envelope
Triple(e) == <<e.event_type, e.entity.type, e.entity.id>>
\* the envelopes the producer enqueued, in order
Enqueued == [i \in DOMAIN broker |-> Decode(broker[i].value).event]
BuiltEnvelope == save.n > 0 /\ ~save.build_raised

\* C11: the idempotency_key of a built envelope is a function of (event_type,
\* entity type, entity id) only: equal triples give equal keys whatever the
\* timestamp and payload, different triples give different keys (so
\* record.created and record.updated of one customer differ).
C11_IdempotencyKeyOfTriple ==
    /\ BuiltEnvelope =>
          \A e \in Builds :
              (e.idempotency_key = save.event.idempotency_key) <=> (Triple(e) = Triple(save.event))
    /\ \A i, j \in DOMAIN Enqueued :
          (Enqueued[i].idempotency_key = Enqueued[j].idempotency_key) <=> (Triple(Enqueued[i]) = Triple(Enqueued[j]))

\* the creation and a later update of customer U1 were both enqueued, with
\* different keys
C11_Witness ==
    /\ Len(broker) = 2
    /\ Triple(Enqueued[1]) = <<"record.created", "customer", "U1">>
    /\ Triple(Enqueued[2]) = <<"record.updated", "customer", "U1">>
    /\ Enqueued[1].occurred_at # Enqueued[2].occurred_at
    /\ Enqueued[1].idempotency_key # Enqueued[2].idempotency_key

\* C12: build_customer_event raises a construction error whenever the entity
\* snapshot lacks its id or its updated-at value and then returns no envelope:
\* no envelope is built whose entity.id or occurred_at stands for a missing
\* value.
C12_MissingFieldRaises ==
    save.n > 0 =>
        /\ (save.instance.id = None \/ save.instance.updated_at = None)
              => (save.build_raised /\ save.event = NoEvent)
        /\ ~save.build_raised
              => (save.event.entity.id # str(None) /\ save.event.occurred_at # str(None))

-----------------------------------------------------------------------------
(* Error classification, logging and termination of one call (SpecHttp) *)

\* the one terminal class of the specification: an HTTP error whose status is
\* neither >= 500 nor 429
StatedTerminalError(e) ==
    e.class = "HTTPError" /\ e.status # 0 /\ e.status < 500 /\ e.status # 429
\* the call failed at least once: e is the error of its latest failed attempt
AttemptFailed == http.pc # "idle" /\ http.last_error # NoError

\* C13: every error of an attempt is classified: connection failure, timeout,
\* redirect loop, HTTP >= 500 and HTTP 429 are retryable, any other HTTP error
\* is terminal, and every other exception is retryable, so that only an HTTP
\* 4xx other than 429 ends the call before max_retries is reached.
C13_ClassificationFailOpen ==
    AttemptFailed =>
        /\ _is_retryable_error(http.last_error) = ~StatedTerminalError(http.last_error)
        /\ StatedTerminalError(http.last_error) => http.pc = "raised"
        /\ (http.pc = "raised" /\ http.attempt < client.max_retries)
              => StatedTerminalError(http.last_error)

-----------------------------------------------------------------------------
(* The shared producer under concurrent publish calls (SpecThreads) *)

\* the producers that had a message enqueued on them
ProducersUsed == {i \in DOMAIN producers : producers[i] > 0}

\* C14: for any interleaving of publish calls from several threads,
\* Producer(config) is constructed at most once and every publish call uses
\* that same producer.
C14_ProducerCreatedOnce ==
    /\ Len(producers) <= 1
    /\ Cardinality(ProducersUsed) <= 1

IsLog(e) == e.ev = "log"
AttemptFailedWith(e) == IsRequest(e) /\ ~StatedSuccess(e.outcome)
\* the log entries of the current call and its failed attempts, in order
LogEntries == SelectSeq(http.trace, IsLog)
FailedAttempts == SelectSeq(http.trace, AttemptFailedWith)

\* C17: every error occurrence of one call is logged exactly once, and every
\* entry carries the call's correlation id (drawn once per call, fresh for
\* each call), the number of the attempt that failed, the error class and the
\* target URL, for intermediate failures and for the final one.
C17_EveryFailureLogged ==
    CallStarted =>
        /\ http.error_instance_id \in used_ids
        /\ Len(LogEntries) = Len(FailedAttempts)
        /\ \A i \in 1..Len(LogEntries) :
              /\ LogEntries[i].entry.id = http.error_instance_id
              /\ LogEntries[i].entry.has_attempt
              /\ LogEntries[i].entry.attempt = FailedAttempts[i].attempt + 1
              /\ LogEntries[i].entry.error_type = ErrorOf(FailedAttempts[i].outcome).class
              /\ LogEntries[i].entry.url = http.full_url

\* a call through get or post on a client with max_retries >= 0
CallOfRetryingClient == CallStarted /\ client.max_retries >= 0
CallEnded == http.pc \in {"returned", "raised"}

\* C18: every call runs to completion: with max_retries = M >= 0 and any
\* sequence of attempt outcomes it makes at least 1 and at most M+1 attempts,
\* one after the other, and ends by returning the response of its last
\* attempt or by raising the error of its last attempt, never with neither.
\* Completion: while the call is in its loop the next iteration can always
\* run, and every iteration either ends the call or uses up one of the M+1
\* attempts.
C18_CallRunsToCompletion ==
    /\ [](CallOfRetryingClient =>
            /\ NAttempts <= client.max_retries + 1
            /\ http.pc \in {"loop", "returned", "raised"}
            /\ \A i \in 1..NAttempts :
                  /\ Attempts[i].attempt = i - 1
                  /\ i < NAttempts => ~StatedSuccess(Attempts[i].outcome)
            /\ http.pc = "loop" =>
                  /\ http.attempt = NAttempts
                  /\ http.attempt <= client.max_retries
                  /\ ENABLED HttpAttempt
            /\ http.pc = "returned" =>
                  /\ NAttempts >= 1
                  /\ ~http.returned_none
                  /\ http.value.status_code = Attempts[NAttempts].outcome.status
                  /\ http.value.headers # None
                  /\ http.value.data # None
                  /\ http.error = NoError
            /\ http.pc = "raised" =>
                  /\ NAttempts >= 1
                  /\ http.error = ErrorOf(Attempts[NAttempts].outcome)
                  /\ http.value = NoValue)
    /\ [][(CallOfRetryingClient /\ http.pc = "loop") =>
             \/ http'.pc \in {"returned", "raised"}
             \/ http'.pc = "loop" /\ http'.attempt = http.attempt + 1]_vars

\* a retryable failure, then a terminal one: the call ended after 2 of its 4
\* attempts with the error of the second
C18_Witness ==
    /\ client.max_retries = DefaultMaxRetries
    /\ CallEnded
    /\ NAttempts = 2
    /\ Attempts[1].outcome = Resp(500, "text")
    /\ Attempts[2].outcome = Resp(404, "json")
    /\ http.error = HttpErr(404)

====
